---- MODULE Spec2Model ----
(***************************************************************************)
(* Model of the Dilation L2 connection core of magic-wormhole:             *)
(*   src/src/wormhole/_dilation/connection.py  (_Framer, _Record,          *)
(*   DilatedConnectionProtocol, parse_record, encode_record)               *)
(*                                                                         *)
(* Bytes are the integers 0..255, byte strings are sequences of them.      *)
(* The three automat machines change state BEFORE their outputs run, so an *)
(* output that raises leaves the machine in the target state.  Every call  *)
(* made by the environment is one action; the exception it lets escape (or *)
(* "none") is recorded in last.exc.                                        *)
(***************************************************************************)
EXTENDS Integers, Sequences, FiniteSets, TLC

VARIABLES
    cfg,        \* constructor arguments of DilatedConnectionProtocol
    stream,     \* the bytes the peer sends on this connection (environment)
    pos,        \* how many bytes of stream the transport has delivered
    connected,  \* connectionMade has been called
    framer,     \* the _Framer object (state, _buffer, _can_send_frames, ...)
    transport,  \* the ITransport: the write() calls made, loseConnection()
    tokens,     \* every token add_and_parse has yielded so far, in order
    record,     \* the _Record object (state of machine n)
    noise,      \* the Noise object handed to _Record
    l2,         \* the DilatedConnectionProtocol object
    last,       \* the last call: its name, argument, yield and exception
    receive,    \* the Receive object (state of its machine, _key, calls made)
    codec       \* a record on its way through encode_record and parse_record

vars == <<cfg, stream, pos, connected, framer, transport, tokens, record,
          noise, l2, last, receive, codec>>

----------------------------------------------------------------------------
(* Bounds of the model *)

\* longest frame section (length prefixes and payloads) of a peer stream
MaxFrameBytes == 5
\* most transport.write() calls in one run
MaxWrites == 3

----------------------------------------------------------------------------
(* Byte strings *)

\* Python slice s[lo:hi] for 0 <= lo, with hi clamped to len(s)
Slice(s, lo, hi) ==
    LET h == IF hi > Len(s) THEN Len(s) ELSE hi
    IN  IF lo >= h THEN <<>> ELSE SubSeq(s, lo + 1, h)

\* Python slice s[lo:]
SliceFrom(s, lo) == Slice(s, lo, Len(s))

\* bytes.startswith
startswith(s, prefix) ==
    /\ Len(s) >= Len(prefix)
    /\ SubSeq(s, 1, Len(prefix)) = prefix

\* b"\n" in s
HasNewline(s) == \E i \in 1..Len(s) : s[i] = 10

\* every sequence over S of length at most n
RECURSIVE SeqsUpTo(_, _)
SeqsUpTo(S, n) ==
    IF n = 0 THEN {<<>>}
    ELSE LET shorter == SeqsUpTo(S, n - 1)
         IN  shorter \cup {Append(s, x) : s \in {t \in shorter : Len(t) = n - 1}, x \in S}

\* encode.from_be4: big-endian decode of a 4-byte string
from_be4(b) == b[1] * 16777216 + b[2] * 65536 + b[3] * 256 + b[4]

\* encode.to_be4: 4-byte big-endian encoding of n
to_be4(n) ==
    << (n \div 16777216) % 256, (n \div 65536) % 256, (n \div 256) % 256, n % 256 >>

----------------------------------------------------------------------------
(* Tokens *)

NoToken == [type |-> "None"]
RelayOK == [type |-> "RelayOk"]
Prologue == [type |-> "Prologue"]
Frame(frame) == [type |-> "Frame", frame |-> frame]

----------------------------------------------------------------------------
(* _Framer *)

\* the two prologues the caller configures ("out" and "in")
outbound_prologue == <<111, 117, 116>>
inbound_prologue == <<105, 110>>
\* the relay handshake the caller configures ("r")
relay_handshake == <<114>>
\* b"ok\n"
expected_relay_reply == <<111, 107, 10>>

NewFramer ==
    [state |-> "want_prologue", buffer |-> <<>>, can_send_frames |-> FALSE,
     outbound_relay_handshake |-> <<>>, expected_relay_handshake |-> <<>>]

NewTransport == [written |-> <<>>, closed |-> FALSE]

write(t, data) == [t EXCEPT !.written = Append(@, data)]

\* _get_expected as it would be without the newline test: it complains only
\* once the buffer has reached the expected length
get_expected_length_only(buffer, expected) ==
    LET lb == Len(buffer)
        le == Len(expected)
    IN  IF startswith(buffer, expected)
        THEN [ok |-> TRUE, buffer |-> SliceFrom(buffer, le), raised |-> FALSE]
        ELSE IF buffer # Slice(expected, 0, lb) /\ lb >= le
             THEN [ok |-> FALSE, buffer |-> buffer, raised |-> TRUE]
             ELSE [ok |-> FALSE, buffer |-> buffer, raised |-> FALSE]

\* _Framer._get_expected: [ok, buffer, raised]
get_expected(buffer, expected) ==
    LET lb == Len(buffer)
        le == Len(expected)
    IN  IF startswith(buffer, expected)
        THEN [ok |-> TRUE, buffer |-> SliceFrom(buffer, le), raised |-> FALSE]
        ELSE IF buffer # Slice(expected, 0, lb)
             THEN IF HasNewline(buffer) \/ lb >= le
                  THEN [ok |-> FALSE, buffer |-> buffer, raised |-> TRUE]
                  ELSE [ok |-> FALSE, buffer |-> buffer, raised |-> FALSE]
             ELSE [ok |-> FALSE, buffer |-> buffer, raised |-> FALSE]

\* output parse_relay_ok
parse_relay_ok(f) ==
    LET g == get_expected(f.buffer, f.expected_relay_handshake)
    IN  [token |-> IF g.ok THEN RelayOK ELSE NoToken,
         buffer |-> g.buffer, raised |-> g.raised]

\* output parse_prologue
parse_prologue(f) ==
    LET g == get_expected(f.buffer, inbound_prologue)
    IN  [token |-> IF g.ok THEN Prologue ELSE NoToken,
         buffer |-> g.buffer, raised |-> g.raised]

\* output parse_frame
parse_frame(f) ==
    IF Len(f.buffer) < 4
    THEN [token |-> NoToken, buffer |-> f.buffer, raised |-> FALSE]
    ELSE LET frame_length == from_be4(Slice(f.buffer, 0, 4))
         IN  IF Len(f.buffer) < frame_length
             THEN [token |-> NoToken, buffer |-> f.buffer, raised |-> FALSE]
             ELSE [token |-> Frame(Slice(f.buffer, 4, 4 + frame_length)),
                   buffer |-> SliceFrom(f.buffer, 4 + frame_length),
                   raised |-> FALSE]

\* input parse: the state chooses the parser (collector=first)
parse(f) ==
    CASE f.state = "want_relay" -> parse_relay_ok(f)
      [] f.state = "want_prologue" -> parse_prologue(f)
      [] f.state = "want_frame" -> parse_frame(f)

\* input use_relay(relay_handshake): output store_relay_handshake
use_relay(f, h) ==
    IF f.state = "want_prologue"
    THEN [f |-> [f EXCEPT !.state = "want_relay",
                          !.outbound_relay_handshake = h,
                          !.expected_relay_handshake = expected_relay_reply],
          exc |-> "none"]
    ELSE [f |-> f, exc |-> "NoTransition"]

\* connectionMade as it would be if want_relay sent the prologue as
\* want_prologue does
Framer_connectionMade_prologue_always(f, t) ==
    IF f.state \in {"want_relay", "want_prologue"}
    THEN [f |-> f, t |-> write(t, outbound_prologue), exc |-> "none"]
    ELSE [f |-> f, t |-> t, exc |-> "NoTransition"]

\* input _Framer.connectionMade: send_relay_handshake or send_prologue
Framer_connectionMade(f, t) ==
    CASE f.state = "want_relay" ->
            [f |-> f, t |-> write(t, f.outbound_relay_handshake), exc |-> "none"]
      [] f.state = "want_prologue" ->
            [f |-> f, t |-> write(t, outbound_prologue), exc |-> "none"]
      [] OTHER -> [f |-> f, t |-> t, exc |-> "NoTransition"]

\* input got_relay_ok: output send_prologue, enter want_prologue
got_relay_ok(f, t) ==
    [f |-> [f EXCEPT !.state = "want_prologue"],
     t |-> write(t, outbound_prologue)]

\* input got_prologue: output can_send_frames, enter want_frame
Framer_got_prologue(f, t) ==
    [f |-> [f EXCEPT !.state = "want_frame", !.can_send_frames = TRUE],
     t |-> t]

\* the while loop of add_and_parse, run to exhaustion by the caller;
\* out collects the yielded tokens
RECURSIVE parse_loop(_, _, _)
parse_loop(f, t, out) ==
    LET p == parse(f)
        g == [f EXCEPT !.buffer = p.buffer]
    IN  IF p.raised
        THEN [f |-> f, t |-> t, out |-> out, exc |-> "Disconnect"]
        ELSE CASE p.token.type = "RelayOk" ->
                    LET n == got_relay_ok(g, t) IN parse_loop(n.f, n.t, out)
               [] p.token.type = "Prologue" ->
                    LET n == Framer_got_prologue(g, t)
                    IN  parse_loop(n.f, n.t, Append(out, p.token))
               [] p.token.type = "Frame" ->
                    parse_loop(g, t, Append(out, p.token))
               [] OTHER -> [f |-> g, t |-> t, out |-> out, exc |-> "none"]

\* _Framer.add_and_parse(data), iterated to its end
add_and_parse(f, t, data) ==
    parse_loop([f EXCEPT !.buffer = @ \o data], t, <<>>)

\* send_frame as it would be without its assertion
send_frame_unchecked(f, t, send, frame) ==
    [t |-> write(t, to_be4(Len(frame)) \o frame), exc |-> "none"]

\* _Framer.send_frame(send, frame)
send_frame(f, t, send, frame) ==
    IF ~f.can_send_frames
    THEN [t |-> t, exc |-> "AssertionError"]
    ELSE [t |-> write(t, to_be4(Len(frame)) \o frame), exc |-> "none"]

----------------------------------------------------------------------------
(* Records, parse_record and encode_record *)

Handshake == [type |-> "Handshake"]
KCM == [type |-> "KCM"]
Ping(ping_id) == [type |-> "Ping", ping_id |-> ping_id]
Pong(ping_id) == [type |-> "Pong", ping_id |-> ping_id]
Open(seqnum, scid) == [type |-> "Open", seqnum |-> seqnum, scid |-> scid]
Data(seqnum, scid, data) ==
    [type |-> "Data", seqnum |-> seqnum, scid |-> scid, data |-> data]
Close(seqnum, scid) == [type |-> "Close", seqnum |-> seqnum, scid |-> scid]
Ack(resp_seqnum) == [type |-> "Ack", resp_seqnum |-> resp_seqnum]
\* what parse_record returns when it falls off its end
None == [type |-> "NoneType"]

T_KCM == <<0>>
T_PING == <<1>>
T_PONG == <<2>>
T_OPEN == <<3>>
T_DATA == <<4>>
T_CLOSE == <<5>>
T_ACK == <<6>>

\* parse_record as it would be if it cut the two fields in the other order
parse_record_seqnum_first(plaintext) ==
    LET msgtype == Slice(plaintext, 0, 1)
    IN  CASE msgtype = T_KCM -> KCM
          [] msgtype = T_PING -> Ping(Slice(plaintext, 1, 5))
          [] msgtype = T_PONG -> Pong(Slice(plaintext, 1, 5))
          [] msgtype = T_OPEN -> Open(Slice(plaintext, 1, 5), Slice(plaintext, 5, 9))
          [] msgtype = T_DATA ->
                Data(Slice(plaintext, 1, 5), Slice(plaintext, 5, 9), SliceFrom(plaintext, 9))
          [] msgtype = T_CLOSE -> Close(Slice(plaintext, 1, 5), Slice(plaintext, 5, 9))
          [] msgtype = T_ACK -> Ack(Slice(plaintext, 1, 5))
          [] OTHER -> None

parse_record(plaintext) ==
    LET msgtype == Slice(plaintext, 0, 1)
    IN  CASE msgtype = T_KCM -> KCM
          [] msgtype = T_PING -> Ping(Slice(plaintext, 1, 5))
          [] msgtype = T_PONG -> Pong(Slice(plaintext, 1, 5))
          [] msgtype = T_OPEN -> Open(Slice(plaintext, 5, 9), Slice(plaintext, 1, 5))
          [] msgtype = T_DATA ->
                Data(Slice(plaintext, 5, 9), Slice(plaintext, 1, 5), SliceFrom(plaintext, 9))
          [] msgtype = T_CLOSE -> Close(Slice(plaintext, 5, 9), Slice(plaintext, 1, 5))
          [] msgtype = T_ACK -> Ack(Slice(plaintext, 1, 5))
          [] OTHER -> None

\* [message, exc]
encode_record(r) ==
    CASE r.type = "KCM" -> [message |-> <<0>>, exc |-> "none"]
      [] r.type = "Ping" -> [message |-> <<1>> \o r.ping_id, exc |-> "none"]
      [] r.type = "Pong" -> [message |-> <<2>> \o r.ping_id, exc |-> "none"]
      [] r.type = "Open" -> [message |-> <<3>> \o r.scid \o r.seqnum, exc |-> "none"]
      [] r.type = "Data" ->
            [message |-> <<4>> \o r.scid \o r.seqnum \o r.data, exc |-> "none"]
      [] r.type = "Close" -> [message |-> <<5>> \o r.scid \o r.seqnum, exc |-> "none"]
      [] r.type = "Ack" -> [message |-> <<6>> \o r.resp_seqnum, exc |-> "none"]
      [] OTHER -> [message |-> <<>>, exc |-> "TypeError"]

----------------------------------------------------------------------------
(* The Noise object the caller supplies: a deterministic stand-in.  Its    *)
(* handshake message is one fixed byte string, the peer's is another, and  *)
(* a ciphertext is the plaintext behind one authentication byte.           *)

NewNoise == [started |-> FALSE, wrote |-> FALSE, read |-> FALSE]

\* what noise.write_message() returns, and the one frame read_message accepts
own_handshake == <<72>>
peer_handshake == <<1>>
\* the byte in front of every authentic ciphertext
auth_byte == <<1>>

noise_start_handshake(n) == [n EXCEPT !.started = TRUE]

noise_write_message(n) == [n |-> [n EXCEPT !.wrote = TRUE], message |-> own_handshake]

\* raises NoiseInvalidMessage unless the frame is the peer's handshake
noise_read_message(n, frame) ==
    IF frame = peer_handshake
    THEN [n |-> [n EXCEPT !.read = TRUE], invalid |-> FALSE]
    ELSE [n |-> n, invalid |-> TRUE]

\* decrypt exists once the handshake is complete (the peer's message was
\* read): before that it raises NoiseHandshakeError; after, it raises
\* NoiseInvalidMessage unless the frame starts with the authentication byte
noise_decrypt(n, frame) ==
    CASE ~n.read -> [message |-> <<>>, invalid |-> FALSE, error |-> TRUE]
      [] startswith(frame, auth_byte) ->
            [message |-> SliceFrom(frame, Len(auth_byte)), invalid |-> FALSE,
             error |-> FALSE]
      [] OTHER -> [message |-> <<>>, invalid |-> TRUE, error |-> FALSE]

noise_send(n, message) == auth_byte \o message

----------------------------------------------------------------------------
(* _Record *)

NewRecord == [exists |-> FALSE, state |-> "want_prologue"]

\* _Record(framer, noise): __attrs_post_init__ starts the Noise handshake
Record_init(n) ==
    [r |-> [exists |-> TRUE, state |-> "want_prologue"],
     n |-> noise_start_handshake(n)]

\* self._framer.send_frame(x) as _Record calls it: one argument for the two
\* parameters (send, frame), so the call raises TypeError before the body runs
send_frame_one_argument(f, t, x) == [t |-> t, exc |-> "TypeError"]

\* output send_handshake
send_handshake(f, t, n) ==
    LET w == noise_write_message(n)
        s == send_frame_one_argument(f, t, w.message)
    IN  [t |-> s.t, n |-> w.n, exc |-> s.exc]

\* output process_handshake: [token, n, exc]
process_handshake(n, frame) ==
    LET m == noise_read_message(n, frame)
    IN  IF m.invalid
        THEN [token |-> NoToken, n |-> m.n, exc |-> "Disconnect"]
        ELSE [token |-> Handshake, n |-> m.n, exc |-> "none"]

\* output decrypt_message: [token, n, exc]
decrypt_message(n, frame) ==
    LET m == noise_decrypt(n, frame)
    IN  CASE m.error -> [token |-> NoToken, n |-> n, exc |-> "NoiseHandshakeError"]
          [] m.invalid -> [token |-> NoToken, n |-> n, exc |-> "Disconnect"]
          [] OTHER -> [token |-> parse_record(m.message), n |-> n, exc |-> "none"]

\* input _Record.got_prologue: [r, t, n, exc]
Record_got_prologue(r, f, t, n) ==
    IF r.state = "want_prologue"
    THEN LET s == send_handshake(f, t, n)
         IN  [r |-> [r EXCEPT !.state = "want_handshake"],
              t |-> s.t, n |-> s.n, exc |-> s.exc]
    ELSE [r |-> r, t |-> t, n |-> n, exc |-> "NoTransition"]

\* got_frame as it would be if want_message fed its frames to read_message too
Record_got_frame_always_handshake(r, n, frame) ==
    IF r.state \in {"want_handshake", "want_message"}
    THEN LET h == process_handshake(n, frame)
         IN  [r |-> [r EXCEPT !.state = "want_message"],
              n |-> h.n, token |-> h.token, exc |-> h.exc]
    ELSE [r |-> r, n |-> n, token |-> NoToken, exc |-> "NoTransition"]

\* input _Record.got_frame(frame) (collector=first): [r, n, token, exc]
Record_got_frame(r, n, frame) ==
    CASE r.state = "want_handshake" ->
            LET h == process_handshake(n, frame)
            IN  [r |-> [r EXCEPT !.state = "want_message"],
                 n |-> h.n, token |-> h.token, exc |-> h.exc]
      [] r.state = "want_message" ->
            LET d == decrypt_message(n, frame)
            IN  [r |-> r, n |-> d.n, token |-> d.token, exc |-> d.exc]
      [] OTHER -> [r |-> r, n |-> n, token |-> NoToken, exc |-> "NoTransition"]

\* _Record.connectionMade: it reads self._f, an attribute _Record never has
\* (the framer is stored as self._framer)
Record_connectionMade(r, f, t) == [f |-> f, t |-> t, exc |-> "AttributeError"]

\* _Record.dataReceived(data), iterated by the caller: the generator's first
\* step evaluates self._f.add_and_parse and raises before the Framer sees data
Record_dataReceived(r, f, t, n, data) ==
    [r |-> r, f |-> f, t |-> t, n |-> n, out |-> <<>>, exc |-> "AttributeError"]

\* _Record.send_record(r): [t, exc]
Record_send_record(f, t, n, rec) ==
    LET e == encode_record(rec)
    IN  IF e.exc # "none" THEN [t |-> t, exc |-> e.exc]
        ELSE send_frame_one_argument(f, t, noise_send(n, e.message))

----------------------------------------------------------------------------
(* DilatedConnectionProtocol *)

NewL2 ==
    [state |-> "unselected", manager |-> "None", can_send_records |-> FALSE,
     candidates |-> 0, delivered |-> <<>>, disconnected |-> FALSE]

\* got_kcm as it would be if every state accepted it
Protocol_got_kcm_any_state(p) ==
    [p |-> [p EXCEPT !.state = "selecting", !.candidates = @ + 1], exc |-> "none"]

\* input got_kcm: output add_candidate
Protocol_got_kcm(p) ==
    IF p.state = "unselected"
    THEN [p |-> [p EXCEPT !.state = "selecting", !.candidates = @ + 1],
          exc |-> "none"]
    ELSE [p |-> p, exc |-> "NoTransition"]

\* DilatedConnectionProtocol.select(manager). The class body defines the
\* input select twice: selecting.upon(select, ...) names the first, and the
\* second definition then rebinds the attribute to a new input that no
\* state has a transition for, so the method raises NoTransition everywhere
Protocol_select(p, manager) == [p |-> p, exc |-> "NoTransition"]

\* input got_record(record): output deliver_record
Protocol_got_record(p, rec) ==
    IF p.state = "selected"
    THEN [p |-> [p EXCEPT !.delivered = Append(@, rec)], exc |-> "none"]
    ELSE [p |-> p, exc |-> "NoTransition"]

\* send_record as it would be without its assertion
Protocol_send_record_unasserted(p, f, t, n, rec) == Record_send_record(f, t, n, rec)

\* DilatedConnectionProtocol.send_record(record): [t, exc]
Protocol_send_record(p, f, t, n, rec) ==
    IF ~p.can_send_records
    THEN [t |-> t, exc |-> "AssertionError"]
    ELSE Record_send_record(f, t, n, rec)

\* DilatedConnectionProtocol.disconnect(): transport.loseConnection()
Protocol_disconnect(t) == [t EXCEPT !.closed = TRUE]

\* DilatedConnectionProtocol.connectionMade: [f, t, r, n, exc]
Protocol_connectionMade(c, t, n) ==
    LET f0 == NewFramer
        f1 == IF c.use_relay # <<>> THEN use_relay(f0, relay_handshake).f ELSE f0
        r == Record_init(n)
        m == Record_connectionMade(r.r, f1, t)
    IN  [f |-> m.f, t |-> m.t, r |-> r.r, n |-> r.n, exc |-> m.exc]

\* the body of the for loop of dataReceived, over the tokens the generator
\* yielded: [p, t, exc]
RECURSIVE Protocol_handle_tokens(_, _, _, _, _, _)
Protocol_handle_tokens(c, p, f, t, n, toks) ==
    IF toks = <<>> THEN [p |-> p, t |-> t, exc |-> "none"]
    ELSE LET token == Head(toks)
         IN  CASE token.type = "NoneType" ->
                    [p |-> p, t |-> t, exc |-> "AssertionError"]
               [] token.type = "Handshake" ->
                    IF c.role = "FOLLOWER"
                    THEN LET s == Record_send_record(f, t, n, KCM)
                         IN  IF s.exc # "none"
                             THEN [p |-> p, t |-> s.t, exc |-> s.exc]
                             ELSE Protocol_handle_tokens(c, p, f, s.t, n, Tail(toks))
                    ELSE Protocol_handle_tokens(c, p, f, t, n, Tail(toks))
               [] token.type = "KCM" ->
                    LET k == Protocol_got_kcm(p)
                    IN  IF k.exc # "none"
                        THEN [p |-> k.p, t |-> t, exc |-> k.exc]
                        ELSE Protocol_handle_tokens(c, k.p, f, t, n, Tail(toks))
               [] OTHER ->
                    LET g == Protocol_got_record(p, token)
                    IN  IF g.exc # "none"
                        THEN [p |-> g.p, t |-> t, exc |-> g.exc]
                        ELSE Protocol_handle_tokens(c, g.p, f, t, n, Tail(toks))

\* DilatedConnectionProtocol.dataReceived(data): [p, f, t, r, n, exc].
\* except Disconnect calls self.loseConnection(), which Protocol does not
\* have (only its transport does): AttributeError
Protocol_dataReceived(c, p, r, f, t, n, data) ==
    LET d == Record_dataReceived(r, f, t, n, data)
        h == Protocol_handle_tokens(c, p, d.f, d.t, d.n, d.out)
        exc == IF h.exc # "none" THEN h.exc ELSE d.exc
    IN  [p |-> h.p, f |-> d.f, t |-> h.t, r |-> d.r, n |-> d.n,
         exc |-> IF exc = "Disconnect" THEN "AttributeError" ELSE exc]

\* DilatedConnectionProtocol.connectionLost: fires the one-shot observer
Protocol_connectionLost(p) == [p EXCEPT !.disconnected = TRUE]

----------------------------------------------------------------------------
(* Receive (src/src/wormhole/_receive.py) *)

\* self._side
side == "side"

\* _key.derive_phase_key(key, side, phase): one data key per key, side, phase
derive_phase_key(key, s, phase) == <<key, s, phase>>

\* an encrypted body: the plaintext under the data key it was sealed with
Sealed(data_key, plaintext) == [data_key |-> data_key, plaintext |-> plaintext]

\* _key.decrypt_data(data_key, body): raises CryptoError unless the body was
\* sealed with data_key
decrypt_data(data_key, body) ==
    IF body.data_key = data_key
    THEN [plaintext |-> body.plaintext, error |-> FALSE]
    ELSE [plaintext |-> <<>>, error |-> TRUE]

\* __attrs_post_init__: self._key = None (the empty string stands for None:
\* the code only tests the key's truth), initial state S0_unknown_key
NewReceive == [state |-> "S0_unknown_key", key |-> <<>>, calls |-> <<>>]

\* the calls Receive makes on Send and Boss
S_got_verified_key(key) == [fn |-> "got_verified_key", key |-> key]
W_happy == [fn |-> "happy"]
W_got_message(phase, plaintext) ==
    [fn |-> "got_message", phase |-> phase, plaintext |-> plaintext]
W_scared == [fn |-> "scared"]

\* got_key as it would be if every state accepted it and recorded the key
Receive_got_key_any_state(rv, key) ==
    [rv |-> [rv EXCEPT !.state = IF @ = "S0_unknown_key" THEN "S1_unverified_key" ELSE @,
                       !.key = key],
     exc |-> "none"]

\* input got_key(key): output record_key
Receive_got_key(rv, key) ==
    IF rv.state = "S0_unknown_key"
    THEN [rv |-> [rv EXCEPT !.state = "S1_unverified_key", !.key = key],
          exc |-> "none"]
    ELSE [rv |-> rv, exc |-> "NoTransition"]

\* got_message_good as it would be with W_happy as the first output of S1
Receive_got_message_good_happy_first(rv, phase, plaintext) ==
    IF rv.state \in {"S1_unverified_key", "S2_verified_key"}
    THEN [rv |-> [rv EXCEPT !.state = "S2_verified_key",
                            !.calls = @ \o << W_happy, S_got_verified_key(rv.key),
                                              W_got_message(phase, plaintext) >>],
          exc |-> "none"]
    ELSE [rv |-> rv, exc |-> "none"]

\* input got_message_good(phase, plaintext)
Receive_got_message_good(rv, phase, plaintext) ==
    CASE rv.state = "S1_unverified_key" ->
            IF rv.key = <<>>
            THEN [rv |-> [rv EXCEPT !.state = "S2_verified_key"],
                  exc |-> "AssertionError"]
            ELSE [rv |-> [rv EXCEPT !.state = "S2_verified_key",
                                    !.calls = @ \o << S_got_verified_key(rv.key), W_happy,
                                                      W_got_message(phase, plaintext) >>],
                  exc |-> "none"]
      [] rv.state = "S2_verified_key" ->
            [rv |-> [rv EXCEPT !.calls = Append(@, W_got_message(phase, plaintext))],
             exc |-> "none"]
      [] rv.state = "S3_scared" -> [rv |-> rv, exc |-> "none"]
      [] OTHER -> [rv |-> rv, exc |-> "NoTransition"]

\* got_message_bad as it would be if S3 called W_scared again
Receive_got_message_bad_scared_again(rv) ==
    [rv |-> [rv EXCEPT !.state = "S3_scared", !.calls = Append(@, W_scared)],
     exc |-> "none"]

\* input got_message_bad()
Receive_got_message_bad(rv) ==
    CASE rv.state \in {"S1_unverified_key", "S2_verified_key"} ->
            [rv |-> [rv EXCEPT !.state = "S3_scared", !.calls = Append(@, W_scared)],
             exc |-> "none"]
      [] rv.state = "S3_scared" -> [rv |-> rv, exc |-> "none"]
      [] OTHER -> [rv |-> rv, exc |-> "NoTransition"]

\* Receive.got_message(phase, body)
Receive_got_message(rv, phase, body) ==
    IF rv.key = <<>>
    THEN [rv |-> rv, exc |-> "AssertionError"]
    ELSE LET d == decrypt_data(derive_phase_key(rv.key, side, phase), body)
         IN  IF d.error
             THEN Receive_got_message_bad(rv)
             ELSE Receive_got_message_good(rv, phase, d.plaintext)

\* no record is being encoded
NoCodec == [step |-> "idle"]

----------------------------------------------------------------------------
(* The peer's byte streams *)

RelayParts == { <<>>, expected_relay_reply, <<111, 10>> }
PrologueParts == { inbound_prologue, <<105>>, <<105, 10>>, <<120, 110>> }
FrameParts == SeqsUpTo({0, 1}, MaxFrameBytes)

Streams == { r \o p \o b : r \in RelayParts, p \in PrologueParts, b \in FrameParts }

received == SubSeq(stream, 1, pos)

\* a payload behind its 4-byte length prefix, as the peer's send_frame writes it
framed(payload) == to_be4(Len(payload)) \o payload

\* the record a peer sends once the connection is selected
E1Open == Open(<<0, 0, 0, 2>>, <<0, 0, 0, 1>>)

\* a correct peer on a direct connection: prologue, handshake frame,
\* encrypted KCM, encrypted Open
E1Stream ==
    inbound_prologue \o framed(peer_handshake)
        \o framed(noise_send(NewNoise, T_KCM))
        \o framed(noise_send(NewNoise, encode_record(E1Open).message))

\* a peer whose first encrypted frame carries the unknown tag 9, then a KCM
UnknownTagStream ==
    inbound_prologue \o framed(peer_handshake)
        \o framed(noise_send(NewNoise, <<9>>))
        \o framed(noise_send(NewNoise, T_KCM))

\* what a peer sends after its prologue: a handshake frame Noise accepts or
\* rejects, then an encrypted KCM or a frame that fails authentication
PeerBodies ==
    { inbound_prologue \o framed(peer_handshake),
      inbound_prologue \o framed(<<0>>),
      inbound_prologue \o framed(peer_handshake) \o framed(noise_send(NewNoise, T_KCM)),
      inbound_prologue \o framed(peer_handshake) \o framed(<<0, 0>>),
      <<105, 10>>,
      E1Stream,
      UnknownTagStream }

\* the streams a _Record or a DilatedConnectionProtocol is fed
PeerStreams == { r \o b : r \in {<<>>, expected_relay_reply}, b \in PeerBodies }

\* records a caller may hand to send_record
SendRecords == { KCM, Ping(<<0, 0, 0, 1>>) }

\* frames a caller may hand to _Record.got_frame
GotFrames == { peer_handshake, <<0>>, noise_send(NewNoise, T_KCM), <<1, 9>> }

\* frames a caller may hand to send_frame
SendFrames == { <<>>, <<7>> }

----------------------------------------------------------------------------
(* The record of the last call made on the objects *)

NoCall == [op |-> "init", data |-> <<>>, out |-> <<>>, exc |-> "none"]
Call(op, data, out, exc) == [op |-> op, data |-> data, out |-> out, exc |-> exc]

----------------------------------------------------------------------------
(* A _Framer driven directly through its external API                      *)
(* (use_relay, connectionMade, add_and_parse, send_frame)                  *)

InitFramer ==
    /\ cfg = [role |-> "LEADER", use_relay |-> <<>>]
    /\ stream \in Streams
    /\ pos = 0
    /\ connected = FALSE
    /\ framer = NewFramer
    /\ transport = NewTransport
    /\ tokens = <<>>
    /\ record = NewRecord
    /\ noise = NewNoise
    /\ l2 = NewL2
    /\ last = NoCall
    /\ receive = NewReceive
    /\ codec = NoCodec

\* framer.use_relay(relay_handshake), before the transport connects
DoFramer_use_relay ==
    /\ ~connected
    /\ LET r == use_relay(framer, relay_handshake)
       IN  /\ framer' = r.f
           /\ last' = Call("use_relay", relay_handshake, <<>>, r.exc)
    /\ UNCHANGED <<receive, codec, cfg, stream, pos, connected, transport, tokens, record, noise, l2>>

\* framer.connectionMade(), once
DoFramer_connectionMade ==
    /\ ~connected
    /\ connected' = TRUE
    /\ LET r == Framer_connectionMade(framer, transport)
       IN  /\ framer' = r.f
           /\ transport' = r.t
           /\ last' = Call("connectionMade", <<>>, <<>>, r.exc)
    /\ UNCHANGED <<receive, codec, cfg, stream, pos, tokens, record, noise, l2>>

\* list(framer.add_and_parse(data)) for the next chunk of the stream
DoFramer_add_and_parse ==
    /\ connected
    /\ \E n \in 1..(Len(stream) - pos) :
          LET data == SubSeq(stream, pos + 1, pos + n)
              r == add_and_parse(framer, transport, data)
          IN  /\ pos' = pos + n
              /\ framer' = r.f
              /\ transport' = r.t
              /\ tokens' = tokens \o r.out
              /\ last' = Call("add_and_parse", data, r.out, r.exc)
    /\ UNCHANGED <<receive, codec, cfg, stream, connected, record, noise, l2>>

\* framer.send_frame(send, frame)
DoFramer_send_frame ==
    /\ Len(transport.written) < MaxWrites
    /\ \E frame \in SendFrames :
          LET r == send_frame(framer, transport, "send", frame)
          IN  /\ transport' = r.t
              /\ last' = Call("send_frame", frame, <<>>, r.exc)
    /\ UNCHANGED <<receive, codec, cfg, stream, pos, connected, framer, tokens, record, noise, l2>>

NextFramer ==
    \/ DoFramer_use_relay
    \/ DoFramer_connectionMade
    \/ DoFramer_add_and_parse
    \/ DoFramer_send_frame

SpecFramer == InitFramer /\ [][NextFramer]_vars

----------------------------------------------------------------------------
(* A _Record driven directly: its external API (connectionMade,            *)
(* dataReceived, send_record) and the inputs of its machine (got_prologue, *)
(* got_frame)                                                              *)

InitRecord ==
    /\ cfg = [role |-> "LEADER", use_relay |-> <<>>]
    /\ stream \in PeerStreams
    /\ pos = 0
    /\ connected = FALSE
    /\ framer \in {NewFramer, use_relay(NewFramer, relay_handshake).f}
    /\ transport = NewTransport
    /\ tokens = <<>>
    /\ record = Record_init(NewNoise).r
    /\ noise = Record_init(NewNoise).n
    /\ l2 = NewL2
    /\ last = NoCall
    /\ receive = NewReceive
    /\ codec = NoCodec

\* record.connectionMade(), once
DoRecord_connectionMade ==
    /\ ~connected
    /\ connected' = TRUE
    /\ LET r == Record_connectionMade(record, framer, transport)
       IN  /\ framer' = r.f
           /\ transport' = r.t
           /\ last' = Call("Record_connectionMade", <<>>, <<>>, r.exc)
    /\ UNCHANGED <<receive, codec, cfg, stream, pos, tokens, record, noise, l2>>

\* list(record.dataReceived(data)) for the next chunk of the stream
DoRecord_dataReceived ==
    /\ connected
    /\ \E k \in 1..(Len(stream) - pos) :
          LET data == SubSeq(stream, pos + 1, pos + k)
              r == Record_dataReceived(record, framer, transport, noise, data)
          IN  /\ pos' = pos + k
              /\ record' = r.r
              /\ framer' = r.f
              /\ transport' = r.t
              /\ noise' = r.n
              /\ last' = Call("Record_dataReceived", data, r.out, r.exc)
    /\ UNCHANGED <<receive, codec, cfg, stream, connected, tokens, l2>>

\* record.send_record(r)
DoRecord_send_record ==
    /\ Len(transport.written) < MaxWrites
    /\ \E rec \in SendRecords :
          LET r == Record_send_record(framer, transport, noise, rec)
          IN  /\ transport' = r.t
              /\ last' = Call("Record_send_record", encode_record(rec).message,
                              <<>>, r.exc)
    /\ UNCHANGED <<receive, codec, cfg, stream, pos, connected, framer, tokens, record, noise, l2>>

\* record.got_prologue()
DoRecord_got_prologue ==
    /\ LET r == Record_got_prologue(record, framer, transport, noise)
       IN  /\ record' = r.r
           /\ transport' = r.t
           /\ noise' = r.n
           /\ last' = Call("Record_got_prologue", <<>>, <<>>, r.exc)
    /\ UNCHANGED <<receive, codec, cfg, stream, pos, connected, framer, tokens, l2>>

\* record.got_frame(frame)
DoRecord_got_frame ==
    /\ \E frame \in GotFrames :
          LET r == Record_got_frame(record, noise, frame)
          IN  /\ record' = r.r
              /\ noise' = r.n
              /\ last' = Call("Record_got_frame", frame,
                              IF r.exc = "none" THEN <<r.token>> ELSE <<>>, r.exc)
    /\ UNCHANGED <<receive, codec, cfg, stream, pos, connected, framer, transport, tokens, l2>>

NextRecord ==
    \/ DoRecord_connectionMade
    \/ DoRecord_dataReceived
    \/ DoRecord_send_record
    \/ DoRecord_got_prologue
    \/ DoRecord_got_frame

SpecRecord == InitRecord /\ [][NextRecord]_vars

----------------------------------------------------------------------------
(* A DilatedConnectionProtocol driven by its transport (connectionMade,    *)
(* dataReceived, connectionLost), the Connector (select, disconnect) and   *)
(* the Manager (send_record)                                               *)

InitL2 ==
    /\ cfg \in [role : {"LEADER", "FOLLOWER"}, use_relay : {<<>>, <<1>>}]
    /\ stream \in PeerStreams
    /\ pos = 0
    /\ connected = FALSE
    /\ framer = NewFramer
    /\ transport = NewTransport
    /\ tokens = <<>>
    /\ record = NewRecord
    /\ noise = NewNoise
    /\ l2 = NewL2
    /\ last = NoCall
    /\ receive = NewReceive
    /\ codec = NoCodec

\* transport -> protocol.connectionMade(), once
DoProtocol_connectionMade ==
    /\ ~connected
    /\ connected' = TRUE
    /\ LET r == Protocol_connectionMade(cfg, transport, noise)
       IN  /\ framer' = r.f
           /\ transport' = r.t
           /\ record' = r.r
           /\ noise' = r.n
           /\ last' = Call("connectionMade", <<>>, <<>>, r.exc)
    /\ UNCHANGED <<receive, codec, cfg, stream, pos, tokens, l2>>

\* transport -> protocol.dataReceived(data) for the next chunk of the stream
DoProtocol_dataReceived ==
    /\ connected
    /\ ~l2.disconnected
    /\ \E k \in 1..(Len(stream) - pos) :
          LET data == SubSeq(stream, pos + 1, pos + k)
              r == Protocol_dataReceived(cfg, l2, record, framer, transport, noise, data)
          IN  /\ pos' = pos + k
              /\ l2' = r.p
              /\ record' = r.r
              /\ framer' = r.f
              /\ transport' = r.t
              /\ noise' = r.n
              /\ last' = Call("dataReceived", data, <<>>, r.exc)
    /\ UNCHANGED <<receive, codec, cfg, stream, connected, tokens>>

\* Connector -> protocol.select(manager)
DoProtocol_select ==
    /\ connected
    /\ LET r == Protocol_select(l2, "manager")
       IN  /\ l2' = r.p
           /\ last' = Call("select", <<>>, <<>>, r.exc)
    /\ UNCHANGED <<receive, codec, cfg, stream, pos, connected, framer, transport, tokens, record, noise>>

\* Manager -> protocol.send_record(record)
DoProtocol_send_record ==
    /\ connected
    /\ \E rec \in SendRecords :
          LET r == Protocol_send_record(l2, framer, transport, noise, rec)
          IN  /\ transport' = r.t
              /\ last' = Call("send_record", encode_record(rec).message, <<>>, r.exc)
    /\ UNCHANGED <<receive, codec, cfg, stream, pos, connected, framer, tokens, record, noise, l2>>

\* Connector -> protocol.disconnect()
DoProtocol_disconnect ==
    /\ connected
    /\ transport' = Protocol_disconnect(transport)
    /\ last' = Call("disconnect", <<>>, <<>>, "none")
    /\ UNCHANGED <<receive, codec, cfg, stream, pos, connected, framer, tokens, record, noise, l2>>

\* transport -> protocol.connectionLost(why), once
DoProtocol_connectionLost ==
    /\ connected
    /\ ~l2.disconnected
    /\ l2' = Protocol_connectionLost(l2)
    /\ last' = Call("connectionLost", <<>>, <<>>, "none")
    /\ UNCHANGED <<receive, codec, cfg, stream, pos, connected, framer, transport, tokens, record, noise>>

NextL2 ==
    \/ DoProtocol_connectionMade
    \/ DoProtocol_dataReceived
    \/ DoProtocol_select
    \/ DoProtocol_send_record
    \/ DoProtocol_disconnect
    \/ DoProtocol_connectionLost

SpecL2 == InitL2 /\ [][NextL2]_vars

(* The same protocol with the inputs of its machine also called directly   *)
(* (got_kcm and got_record are public methods of the object)               *)

\* records a caller may hand to got_record
GotRecords == { Ping(<<0, 0, 0, 1>>), Close(<<0, 0, 0, 2>>, <<0, 0, 0, 1>>) }

\* protocol.got_kcm()
DoProtocol_got_kcm ==
    /\ connected
    /\ LET r == Protocol_got_kcm(l2)
       IN  /\ l2' = r.p
           /\ last' = Call("got_kcm", <<>>, <<>>, r.exc)
    /\ UNCHANGED <<receive, codec, cfg, stream, pos, connected, framer, transport, tokens, record, noise>>

\* protocol.got_record(record)
DoProtocol_got_record ==
    /\ connected
    /\ \E rec \in GotRecords :
          LET r == Protocol_got_record(l2, rec)
          IN  /\ l2' = r.p
              /\ last' = Call("got_record", encode_record(rec).message, <<>>, r.exc)
    /\ UNCHANGED <<receive, codec, cfg, stream, pos, connected, framer, transport, tokens, record, noise>>

NextL2Machine ==
    \/ NextL2
    \/ DoProtocol_got_kcm
    \/ DoProtocol_got_record

SpecL2Machine == InitL2 /\ [][NextL2Machine]_vars

----------------------------------------------------------------------------
(* A Receive driven by Key (got_key) and Ordering (got_message)            *)

\* the most calls Receive makes on Send and Boss in one run
MaxReceiveCalls == 5

\* keys got_key may be given: two session keys, and the empty string, which
\* got_key records like any other
Keys == { <<>>, <<1>>, <<2>> }

\* phases of the messages
Phases == { "0", "1" }

\* message bodies: every plaintext sealed for every session key and phase
Bodies ==
    { Sealed(derive_phase_key(k, side, ph), pt) :
        k \in Keys \ { <<>> }, ph \in Phases, pt \in { <<7>>, <<8>> } }

ReceiveCall(op, key, phase, body, exc) ==
    [op |-> op, key |-> key, phase |-> phase, body |-> body, exc |-> exc]

InitReceive ==
    /\ cfg = [role |-> "LEADER", use_relay |-> <<>>]
    /\ stream = <<>>
    /\ pos = 0
    /\ connected = FALSE
    /\ framer = NewFramer
    /\ transport = NewTransport
    /\ tokens = <<>>
    /\ record = NewRecord
    /\ noise = NewNoise
    /\ l2 = NewL2
    /\ last = NoCall
    /\ receive = NewReceive
    /\ codec = NoCodec

\* Key -> receive.got_key(key)
DoReceive_got_key ==
    /\ \E key \in Keys :
          LET r == Receive_got_key(receive, key)
          IN  /\ receive' = r.rv
              /\ last' = ReceiveCall("got_key", key, "", <<>>, r.exc)
    /\ UNCHANGED <<codec, cfg, stream, pos, connected, framer, transport, tokens, record, noise, l2>>

\* Ordering -> receive.got_message(phase, body)
DoReceive_got_message ==
    /\ Len(receive.calls) < MaxReceiveCalls
    /\ \E phase \in Phases, body \in Bodies :
          LET r == Receive_got_message(receive, phase, body)
          IN  /\ receive' = r.rv
              /\ last' = ReceiveCall("got_message", <<>>, phase, body, r.exc)
    /\ UNCHANGED <<codec, cfg, stream, pos, connected, framer, transport, tokens, record, noise, l2>>

NextReceive ==
    \/ DoReceive_got_key
    \/ DoReceive_got_message

SpecReceive == InitReceive /\ [][NextReceive]_vars

----------------------------------------------------------------------------
(* A record taken through encode_record and then parse_record              *)

\* the width parse_record cuts for ping_id, scid, seqnum and resp_seqnum
FieldLen == 4

\* the longest data field of a Data record
MaxDataLen == 2

\* values of the 4-byte fields, and values one byte shorter and longer
FieldValues ==
    { v \in SeqsUpTo({0, 1}, FieldLen + 1) : Len(v) >= FieldLen - 1 }

\* values of the two fields of a Data record
DataFieldValues == { v \in FieldValues : \A i \in 2..Len(v) : v[i] = 0 }

\* the records of every variant
Records ==
    { KCM }
        \cup { Ping(v) : v \in FieldValues }
        \cup { Pong(v) : v \in FieldValues }
        \cup { Open(v, w) : v \in FieldValues, w \in FieldValues }
        \cup { Data(v, w, d) : v \in DataFieldValues, w \in DataFieldValues,
                               d \in SeqsUpTo({0, 1}, MaxDataLen) }
        \cup { Close(v, w) : v \in FieldValues, w \in FieldValues }
        \cup { Ack(v) : v \in FieldValues }

InitCodec ==
    /\ cfg = [role |-> "LEADER", use_relay |-> <<>>]
    /\ stream = <<>>
    /\ pos = 0
    /\ connected = FALSE
    /\ framer = NewFramer
    /\ transport = NewTransport
    /\ tokens = <<>>
    /\ record = NewRecord
    /\ noise = NewNoise
    /\ l2 = NewL2
    /\ last = NoCall
    /\ receive = NewReceive
    /\ codec \in { [step |-> "record", r |-> r] : r \in Records }

\* message = encode_record(r)
DoEncode ==
    /\ codec.step = "record"
    /\ LET e == encode_record(codec.r)
       IN  /\ codec' = [step |-> "encoded", r |-> codec.r, message |-> e.message]
           /\ last' = Call("encode_record", <<>>, e.message, e.exc)
    /\ UNCHANGED <<receive, cfg, stream, pos, connected, framer, transport, tokens, record, noise, l2>>

\* parsed = parse_record(message)
DoParse ==
    /\ codec.step = "encoded"
    /\ codec' = [step |-> "parsed", r |-> codec.r, message |-> codec.message,
                 parsed |-> parse_record(codec.message)]
    /\ last' = Call("parse_record", codec.message, <<>>, "none")
    /\ UNCHANGED <<receive, cfg, stream, pos, connected, framer, transport, tokens, record, noise, l2>>

NextCodec ==
    \/ DoEncode
    \/ DoParse

SpecCodec == InitCodec /\ [][NextCodec]_vars

----------------------------------------------------------------------------
(* Properties of the _Framer *)

\* b is a prefix of e (possibly all of it)
IsPrefixOf(b, e) == Len(b) <= Len(e) /\ SubSeq(e, 1, Len(b)) = b

\* the constant a waiting Framer expects
Expecting(f) ==
    IF f.state = "want_relay" THEN expected_relay_reply ELSE inbound_prologue

Waiting(f) == f.state \in {"want_relay", "want_prologue"}

\* the framer as it is before the first byte arrives
FramerAtConnect ==
    IF framer.expected_relay_handshake # <<>>
    THEN use_relay(NewFramer, relay_handshake).f
    ELSE NewFramer

\* the frames among toks, each put back behind its length prefix
RECURSIVE Reframed(_)
Reframed(toks) ==
    IF toks = <<>> THEN <<>>
    ELSE LET h == Head(toks)
         IN  (IF h.type = "Frame" THEN to_be4(Len(h.frame)) \o h.frame ELSE <<>>)
             \o Reframed(Tail(toks))

\* C1: however the bytes received so far were split into chunks, the tokens
\* yielded over the calls are the tokens one add_and_parse call yields when it
\* is given all of those bytes at once.
C1_ChunkingYieldsSameTokens ==
    connected =>
        tokens = add_and_parse(FramerAtConnect, NewTransport, received).out

\* C2: a call made in want_frame yields a Frame only when the buffer, with the
\* call's bytes appended, holds at least 4 + N bytes, N being the big-endian
\* value of its first 4 bytes.
C2_FrameOnlyWhenComplete ==
    [][ (framer.state = "want_frame" /\ last'.op = "add_and_parse"
            /\ last'.out # <<>>)
        => LET b == framer.buffer \o last'.data
           IN  /\ Len(b) >= 4
               /\ Len(b) >= 4 + from_be4(SubSeq(b, 1, 4)) ]_vars

\* C3: a call made in want_frame takes from the front of the buffer exactly
\* the frames it yields, each as its 4-byte big-endian length followed by that
\* many payload bytes, and leaves the bytes behind them in place.
C3_FrameConsumesPrefixAndPayload ==
    [][ (framer.state = "want_frame" /\ last'.op = "add_and_parse")
        => Reframed(last'.out) \o framer'.buffer = framer.buffer \o last'.data ]_vars

\* the peer misbehaves: the buffer neither starts with the constant nor is a
\* prefix of it, and it is as long as the constant or holds a newline
Misbehaving(b, e) ==
    /\ ~startswith(b, e)
    /\ ~IsPrefixOf(b, e)
    /\ (Len(b) >= Len(e) \/ HasNewline(b))

\* C5: add_and_parse raises Disconnect exactly when it stops in want_relay or
\* want_prologue on a misbehaving buffer; called on a waiting Framer whose
\* buffer plus the new bytes is a proper prefix of the constant, it raises
\* nothing, yields nothing, consumes nothing and stays in its state.
C5_DisconnectIffMisbehaving ==
    [][ last'.op = "add_and_parse"
        => LET b == framer.buffer \o last'.data
               e == Expecting(framer)
           IN  /\ (last'.exc = "Disconnect")
                    <=> (Waiting(framer') /\ Misbehaving(framer'.buffer, Expecting(framer')))
               /\ (Waiting(framer) /\ Misbehaving(b, e))
                    => (last'.exc = "Disconnect" /\ last'.out = <<>>)
               /\ (Waiting(framer) /\ IsPrefixOf(b, e) /\ b # e)
                    => /\ last'.exc = "none"
                       /\ last'.out = <<>>
                       /\ framer' = [framer EXCEPT !.buffer = b]
                       /\ transport' = transport ]_vars

\* C5 witness: a relay reply cut short by a newline raised Disconnect before
\* the buffer reached the length of ok\n
C5_Witness ==
    /\ last.op = "add_and_parse"
    /\ last.exc = "Disconnect"
    /\ framer.state = "want_relay"
    /\ Len(framer.buffer) < Len(expected_relay_reply)
    /\ HasNewline(framer.buffer)

UsedRelay == framer.expected_relay_handshake # <<>>

\* C6: with use_relay(h) called before the connection, the first write is h,
\* the outbound prologue is written exactly when the received bytes start
\* with the complete ok\n and the Framer has left want_relay, and no RelayOk
\* token is ever yielded.
C6_RelayHandshakeFirst ==
    (UsedRelay /\ connected) =>
        /\ transport.written # <<>>
        /\ transport.written[1] = relay_handshake
        /\ \A i \in 1..Len(transport.written) :
              transport.written[i] = outbound_prologue
                  => /\ i = 2
                     /\ startswith(received, expected_relay_reply)
                     /\ framer.state # "want_relay"
        /\ startswith(received, expected_relay_reply)
              => (Len(transport.written) >= 2
                    /\ transport.written[2] = outbound_prologue)
        /\ \A i \in 1..Len(tokens) : tokens[i].type # "RelayOk"

\* C6 witness: the relay replied ok\n, the prologue went out after h, and the
\* peer's prologue has been yielded
C6_Witness ==
    /\ UsedRelay
    /\ Len(transport.written) >= 2
    /\ transport.written[1] = relay_handshake
    /\ transport.written[2] = outbound_prologue
    /\ tokens # <<>>
    /\ tokens[1] = Prologue

\* C7: _can_send_frames is set exactly in want_frame, which is entered exactly
\* when the Prologue token is yielded; before that a send_frame call fails its
\* assertion and the transport has seen no length-prefixed frame.
C7_SendFrameNeedsPrologue ==
    /\ framer.can_send_frames <=> framer.state = "want_frame"
    /\ framer.state = "want_frame"
          <=> (\E i \in 1..Len(tokens) : tokens[i] = Prologue)
    /\ framer.state # "want_frame"
          => /\ last.op = "send_frame" => last.exc = "AssertionError"
             /\ \A i \in 1..Len(transport.written) :
                   transport.written[i] \in {relay_handshake, outbound_prologue}
    /\ (last.op = "send_frame" /\ last.exc = "none")
          => transport.written[Len(transport.written)]
                = to_be4(Len(last.data)) \o last.data

\* C7 witness: send_frame was refused while the relay reply was awaited
C7_Witness ==
    /\ last.op = "send_frame"
    /\ last.exc = "AssertionError"
    /\ framer.state = "want_relay"
    /\ connected

----------------------------------------------------------------------------
(* Properties of the _Record and of the DilatedConnectionProtocol *)

\* C4: no call of dataReceived lets an exception escape to the transport.
C4_DataReceivedRaisesNothing ==
    last.op = "dataReceived" => last.exc = "none"

\* the bytes received are the inbound prologue and one complete frame that
\* Noise read_message rejects
HandshakeFrameRejected ==
    LET rest == SliceFrom(received, Len(inbound_prologue))
    IN  /\ startswith(received, inbound_prologue)
        /\ Len(rest) >= 4
        /\ Len(rest) = 4 + from_be4(SubSeq(rest, 1, 4))
        /\ noise_read_message(noise, SliceFrom(rest, 4)).invalid

\* C8: the dataReceived call that completes a first frame Noise rejects as a
\* handshake raises Disconnect, yields no Handshake token, and nothing has
\* been written to the transport after it.
C8_RejectedHandshakeRaisesDisconnect ==
    (framer.expected_relay_handshake = <<>> /\ last.op = "Record_dataReceived"
        /\ HandshakeFrameRejected)
    => /\ last.exc = "Disconnect"
       /\ last.out = <<>>
       /\ transport.written = <<>>

\* the frame carrying an encrypted KCM
KCMFrame == framed(noise_send(noise, encode_record(KCM).message))

\* C10: once a Follower on a direct connection has received the peer's
\* prologue and a handshake frame Noise accepts, exactly one encrypted KCM
\* frame has been written to the transport.
C10_FollowerWritesOneKCM ==
    (cfg.role = "FOLLOWER" /\ cfg.use_relay = <<>>
        /\ startswith(received, inbound_prologue \o framed(peer_handshake)))
    => Cardinality({ i \in 1..Len(transport.written) :
                        transport.written[i] = KCMFrame }) = 1

\* Under SpecL2 the _Record never leaves want_prologue and the Framer never
\* buffers a byte: no frame is ever handed to Noise by dataReceived.
L2NeverParses ==
    /\ record.state = "want_prologue"
    /\ framer.buffer = <<>>
    /\ ~noise.read
    /\ l2.state = "unselected"
    /\ transport.written = <<>>

----------------------------------------------------------------------------
(* Properties of the DilatedConnectionProtocol machine *)

\* C11: a Leader's protocol that is not Selected writes no record: it has
\* written nothing but what connectionMade writes, send_record is refused with
\* an AssertionError and leaves the transport alone, and a Handshake token
\* makes no send
C11_LeaderWritesNothingBeforeSelect ==
    (cfg.role = "LEADER" /\ l2.state # "selected") =>
        /\ ~l2.can_send_records
        /\ \A i \in 1..Len(transport.written) :
              transport.written[i] \in {outbound_prologue, relay_handshake}
        /\ \A rec \in SendRecords :
              Protocol_send_record(l2, framer, transport, noise, rec)
                  = [t |-> transport, exc |-> "AssertionError"]
        /\ Protocol_handle_tokens(cfg, l2, framer, transport, noise, <<Handshake>>)
              = [p |-> l2, t |-> transport, exc |-> "none"]

\* a Leader in Selecting was asked to send a record and refused
C11_Witness ==
    /\ cfg.role = "LEADER"
    /\ l2.state = "selecting"
    /\ last.op = "send_record"
    /\ last.exc = "AssertionError"

\* tokens the record layer can yield
Tokens == { Handshake, KCM } \cup GotRecords

\* C12: the lifecycle state changes only from unselected to selecting (by
\* got_kcm, called directly or by dataReceived) and from selecting to
\* selected (by select); add_candidate is called at most once, on the step
\* to selecting, and of the tokens only a KCM leads to it
C12_LifecycleForwardOnly ==
    [][ /\ l2'.state # l2.state =>
              \/ /\ l2.state = "unselected" /\ l2'.state = "selecting"
                 /\ last'.op \in {"got_kcm", "dataReceived"}
              \/ /\ l2.state = "selecting" /\ l2'.state = "selected"
                 /\ last'.op = "select"
        /\ l2'.candidates # l2.candidates =>
              /\ l2'.candidates = l2.candidates + 1
              /\ l2.state = "unselected" /\ l2'.state = "selecting"
        /\ l2'.candidates <= 1
        /\ \A tok \in Tokens \ {KCM} :
              Protocol_handle_tokens(cfg, l2, framer, transport, noise, <<tok>>).p.candidates
                  = l2.candidates ]_vars

\* a second got_kcm was refused after the first registered the candidate
C12_Witness ==
    /\ l2.state = "selecting"
    /\ l2.candidates = 1
    /\ last.op = "got_kcm"
    /\ last.exc = "NoTransition"

\* C13: on a connection that has received the peer's KCM, select(manager)
\* followed by a non-KCM record hands that record to the Manager, after the
\* records handed over before
C13_SelectedDeliversInOrder ==
    l2.state = "selecting" =>
        \A rec \in GotRecords :
            LET s == Protocol_select(l2, "manager")
                g == Protocol_got_record(s.p, rec)
            IN  /\ s.exc = "none"
                /\ g.exc = "none"
                /\ g.p.delivered = Append(l2.delivered, rec)

----------------------------------------------------------------------------
(* Properties of a whole connection *)

\* the peer's stream up to and including its handshake frame
E1UpToHandshake == inbound_prologue \o framed(peer_handshake)

\* the peer's stream up to and including its encrypted KCM
E1UpToKCM == E1UpToHandshake \o framed(noise_send(NewNoise, T_KCM))

\* frame is the i-th write and a later write is an encrypted KCM frame
WrittenThenKCM(frame) ==
    \E i, j \in 1..Len(transport.written) :
        i < j /\ transport.written[i] = frame /\ transport.written[j] = KCMFrame

\* C14: a connected Follower on a direct connection has written the outbound
\* prologue first; once the peer's prologue and handshake frame have arrived
\* it has written its handshake frame and then an encrypted KCM frame; once
\* the peer's encrypted KCM has arrived it has left Unselected and registered
\* with the Connector; and once Selected, the peer's next encrypted record is
\* handed to the Manager by the dataReceived that carries it
C14_FollowerProgress ==
    (cfg.role = "FOLLOWER" /\ cfg.use_relay = <<>> /\ connected
        /\ stream = E1Stream /\ ~l2.disconnected) =>
        /\ Len(transport.written) >= 1
        /\ transport.written[1] = outbound_prologue
        /\ startswith(received, E1UpToHandshake) =>
              WrittenThenKCM(framed(own_handshake))
        /\ startswith(received, E1UpToKCM) =>
              l2.state # "unselected" /\ l2.candidates = 1
        /\ (l2.state = "selected" /\ received = E1UpToKCM) =>
              LET d == Protocol_dataReceived(cfg, l2, record, framer, transport,
                                             noise, SliceFrom(stream, pos))
              IN  d.exc = "none" /\ d.p.delivered = Append(l2.delivered, E1Open)

----------------------------------------------------------------------------
(* Properties of Receive *)

\* how many of the calls made so far are calls of fn
CountCalls(calls, fn) == Cardinality({ i \in 1..Len(calls) : calls[i].fn = fn })

\* the step is a got_message whose body decrypts under the recorded key
GoodMessageStep ==
    /\ last'.op = "got_message"
    /\ receive.key # <<>>
    /\ last'.body.data_key = derive_phase_key(receive.key, side, last'.phase)

\* the step is a got_message whose body fails to decrypt
BadMessageStep ==
    /\ last'.op = "got_message"
    /\ receive.key # <<>>
    /\ last'.body.data_key # derive_phase_key(receive.key, side, last'.phase)

\* C15: a good message in S1 moves to S2 and calls got_verified_key(key),
\* happy, got_message(phase, plaintext) in this order; a good message in S2
\* calls got_message only; happy and got_verified_key are called at most once
C15_FirstGoodMessageVerifies ==
    [][ /\ (GoodMessageStep /\ receive.state = "S1_unverified_key") =>
              /\ receive'.state = "S2_verified_key"
              /\ receive'.calls = receive.calls \o
                    << S_got_verified_key(receive.key), W_happy,
                       W_got_message(last'.phase, last'.body.plaintext) >>
        /\ (GoodMessageStep /\ receive.state = "S2_verified_key") =>
              /\ receive'.state = "S2_verified_key"
              /\ receive'.calls = Append(receive.calls,
                    W_got_message(last'.phase, last'.body.plaintext))
        /\ CountCalls(receive'.calls, "happy") <= 1
        /\ CountCalls(receive'.calls, "got_verified_key") <= 1 ]_vars

\* two good messages have been delivered after the key was verified
C15_Witness ==
    /\ receive.state = "S2_verified_key"
    /\ Len(receive.calls) = 4
    /\ receive.calls[1] = S_got_verified_key(receive.key)
    /\ receive.calls[2] = W_happy
    /\ receive.calls[3].fn = "got_message"
    /\ receive.calls[4].fn = "got_message"
    /\ receive.calls[3] # receive.calls[4]

\* a bad message in S1 or S2 moves to S3 and calls scared, once in a run; if
\* no good message came first got_verified_key is never called
BadMessageScares ==
    /\ (BadMessageStep /\ receive.state \in {"S1_unverified_key", "S2_verified_key"}) =>
          /\ receive'.state = "S3_scared"
          /\ receive'.calls = Append(receive.calls, W_scared)
    /\ CountCalls(receive'.calls, "scared") <= 1
    /\ (receive'.state = "S3_scared" /\ CountCalls(receive'.calls, "got_message") = 0) =>
          CountCalls(receive'.calls, "got_verified_key") = 0

\* C16 as stated: a bad message scares once, and in S3 every event (good
\* message, bad message, got_key) returns normally and changes nothing
C16_S3EventsAreNoOps ==
    [][ /\ BadMessageScares
        /\ receive.state = "S3_scared" =>
              /\ receive' = receive
              /\ last'.exc = "none" ]_vars

\* C16 amended: a bad message scares once, and in S3 no event changes the
\* state or makes a call; a message returns normally, got_key raises
\* NoTransition
C16_S3ChangesNothing ==
    [][ /\ BadMessageScares
        /\ receive.state = "S3_scared" =>
              /\ receive' = receive
              /\ last'.exc = IF last'.op = "got_key" THEN "NoTransition" ELSE "none" ]_vars

\* scared before any good message, then a message that would have decrypted
C16_Witness ==
    /\ receive.state = "S3_scared"
    /\ receive.calls = << W_scared >>
    /\ last.op = "got_message"
    /\ last.body.data_key = derive_phase_key(receive.key, side, last.phase)

----------------------------------------------------------------------------
(* Properties of the record codec *)

\* the fields of r that parse_record cuts at a fixed width
FixedFields(r) ==
    CASE r.type \in {"Ping", "Pong"} -> { r.ping_id }
      [] r.type \in {"Open", "Data", "Close"} -> { r.scid, r.seqnum }
      [] r.type = "Ack" -> { r.resp_seqnum }
      [] OTHER -> {}

\* C17 as stated: whatever the values of its fields, a record that was
\* encoded and parsed comes back equal
C17_RoundTripAnyFields ==
    codec.step = "parsed" => codec.parsed = codec.r

\* C17 amended: a record whose ping_id, scid, seqnum and resp_seqnum are 4
\* bytes long, with data of any length, comes back equal from encode_record
\* and parse_record
C17_RoundTripFourByteFields ==
    (codec.step = "parsed" /\ \A v \in FixedFields(codec.r) : Len(v) = FieldLen)
        => codec.parsed = codec.r

\* a Data record with distinct scid and seqnum and some data came back
C17_Witness ==
    /\ codec.step = "parsed"
    /\ codec.r.type = "Data"
    /\ Len(codec.r.scid) = FieldLen /\ Len(codec.r.seqnum) = FieldLen
    /\ codec.r.scid # codec.r.seqnum
    /\ codec.r.data # <<>>
    /\ codec.parsed = codec.r

\* C18: when the peer's prologue, handshake frame, an encrypted frame with
\* the unknown tag 9 and an encrypted KCM have been received, the unknown
\* frame was dropped and the KCM processed: dataReceived raised nothing, the
\* transport is open, nothing went to the Manager and the L2 is Selecting;
\* and the loop of dataReceived takes the two tokens the same way
C18_UnknownTagDropped ==
    (connected /\ received = UnknownTagStream /\ last.op = "dataReceived") =>
        /\ last.exc = "none"
        /\ ~transport.closed
        /\ l2.delivered = <<>>
        /\ l2.state = "selecting"
        /\ LET h == Protocol_handle_tokens(cfg, NewL2, framer, transport, noise,
                                           << parse_record(<<9>>), KCM >>)
           IN  h.exc = "none" /\ h.p.state = "selecting"

----------------------------------------------------------------------------
(* Properties of the _Record *)

\* the tokens the record's Framer yields for the bytes received so far, when
\* it is given them in one piece after connectionMade
FramerTokens ==
    LET c == Framer_connectionMade(framer, transport)
    IN  add_and_parse(c.f, c.t, received).out

C20_PrologueWritesHandshakeFrame ==
    (last.op = "Record_got_prologue" /\ last.exc # "NoTransition") =>
        /\ record.state = "want_handshake"
        /\ last.exc = "none"
        /\ transport.written = << framed(own_handshake) >>

----------------------------------------------------------------------------
(* Properties of the outbound prologue *)

\* the writes that carried the outbound prologue
PrologueWrites ==
    { i \in 1..Len(transport.written) : transport.written[i] = outbound_prologue }

\* C21: on a connection the outbound prologue is never written twice; with
\* no relay it has been written once connectionMade has run, with a relay it
\* has been written exactly when the relay's ok has been received; and every
\* other write but the relay handshake comes after it
C21_PrologueWrittenOnce ==
    /\ Cardinality(PrologueWrites) <= 1
    /\ (connected /\ cfg.use_relay = <<>>) => Cardinality(PrologueWrites) = 1
    /\ (connected /\ cfg.use_relay # <<>> /\ ~transport.closed /\ ~l2.disconnected) =>
          (Cardinality(PrologueWrites) = 1
              <=> startswith(received, expected_relay_reply))
    /\ \A i \in 1..Len(transport.written) :
          transport.written[i] \notin {outbound_prologue, relay_handshake}
              => \E j \in 1..(i - 1) : j \in PrologueWrites

\* the Framer on its own (SpecFramer) writes the outbound prologue at most
\* once, at connectionMade when no relay is used, and before any frame
FramerAloneWritesPrologueOnce ==
    /\ Cardinality(PrologueWrites) <= 1
    /\ (connected /\ ~UsedRelay) => Cardinality(PrologueWrites) = 1
    /\ \A i \in 1..Len(transport.written) :
          transport.written[i] \notin {outbound_prologue, relay_handshake}
              => \E j \in 1..(i - 1) : j \in PrologueWrites

----------------------------------------------------------------------------
(* Properties of the key Receive records *)

\* every got_verified_key call made so far passed the recorded key
VerifiedKeyIsRecordedKey(rv) ==
    \A i \in 1..Len(rv.calls) :
        rv.calls[i].fn = "got_verified_key" => rv.calls[i].key = rv.key

====
